---- MODULE Spec2Model ----
(***************************************************************************)
(* SimpleTaskList (src/main.py): the task store and the request handlers   *)
(* add_task, edit_task, toggle_task, move_task, delete_task and            *)
(* sweep_completed, each modelled as one atomic step (one request, one     *)
(* commit).  A handler is an operator from the table and the request to    *)
(* the outcome of the request (AddTask, EditTask, ...) and an action that  *)
(* applies that outcome (add_task, edit_task, ...).  reorder_tasks is the  *)
(* bulk reorder of the interface description; it has no handler in         *)
(* src/main.py.  Spec runs the handlers with the inputs that matter for    *)
(* positions, completion and requires_id; SpecText runs add and edit with  *)
(* the label and content texts, SpecDue runs Task.get_time_display over    *)
(* due_date texts and days, and SpecConcurrent lets a delete or a sweep    *)
(* stay in flight between its reads and its commit.                        *)
(*                                                                         *)
(* A nullable column or a form field that may be missing is a set with at  *)
(* most one element: None is {} and Some(v) is {v}.  Text is a sequence of *)
(* one-character strings.  Task.created_at is written once and never read  *)
(* and is left out of the record.                                          *)
(***************************************************************************)
EXTENDS Integers, Sequences, FiniteSets, TLC

VARIABLES
    tasks,  \* the task table: id -> row
    now,    \* the next reading of datetime.datetime.now()
    last,   \* the last request: its handler, its response, whether it
            \* committed, the rows its cascade unlinked, and what it
            \* rendered
    pending \* the requests in flight: the changes each holds in its
            \* session until it commits

vars == <<tasks, now, last, pending>>

(* ------------------------------- bounds -------------------------------- *)

\* Most rows the table holds at once.
MaxTasks == 3
\* Largest primary key the store hands out.
MaxId == 3
\* Lowest position is -MaxDepth (insert-at-top counts downwards from 0).
MaxDepth == 2
\* Number of completion timestamps the clock hands out.
MaxClock == 2

(* ---------------------------- optional values -------------------------- *)

None == {}

Some(v) == {v}

Val(o) == CHOOSE v \in o : TRUE

\* Python truthiness of an optional text: neither None nor "".
Truthy(o) == o # None /\ Val(o) # <<>>

SeqsUpTo(S, n) == UNION {[1..k -> S] : k \in 0..n}

(* ------------------------------ label text ----------------------------- *)

LowerChars == {"u", "r", "g", "e", "n", "t"}

UpperChars == {"U", "R", "G", "E", "N", "T"}

ToUpper(c) ==
    CASE c = "u" -> "U" [] c = "r" -> "R" [] c = "g" -> "G"
      [] c = "e" -> "E" [] c = "n" -> "N" [] c = "t" -> "T" [] OTHER -> c

ToLower(c) ==
    CASE c = "U" -> "u" [] c = "R" -> "r" [] c = "G" -> "g"
      [] c = "E" -> "e" [] c = "N" -> "n" [] c = "T" -> "t" [] OTHER -> c

IsCased(c) == c \in LowerChars \cup UpperChars

IsSpace(c) == c = " "

RECURSIVE LStrip(_)
LStrip(s) == IF s # <<>> /\ IsSpace(Head(s)) THEN LStrip(Tail(s)) ELSE s

RECURSIVE RStrip(_)
RStrip(s) ==
    IF s # <<>> /\ IsSpace(s[Len(s)]) THEN RStrip(SubSeq(s, 1, Len(s) - 1)) ELSE s

\* str.strip()
Strip(s) == RStrip(LStrip(s))

\* str.title(): a cased character is upper-cased when the character before
\* it is not cased, lower-cased otherwise; other characters are kept.
Title(s) ==
    [i \in 1..Len(s) |->
        IF ~IsCased(s[i]) THEN s[i]
        ELSE IF i > 1 /\ IsCased(s[i - 1]) THEN ToLower(s[i])
        ELSE ToUpper(s[i])]

\* raw_label.strip().title() if raw_label else None
NormLabel(raw_label) ==
    IF Truthy(raw_label) THEN Some(Title(Strip(Val(raw_label)))) ELSE None

(* --------------------------- requires_id text -------------------------- *)

AsciiDigits == {"0", "1", "2", "3", "4"}

\* "sup2" stands for the character SUPERSCRIPT TWO: str.isdigit() accepts
\* it, int() does not.
OtherDigits == {"sup2"}

ReqChars == AsciiDigits \cup OtherDigits \cup {"a"}

\* str.isdigit(): non-empty and every character a digit.
IsDigit(s) == s # <<>> /\ \A i \in 1..Len(s) : s[i] \in AsciiDigits \cup OtherDigits

DigitValue(c) ==
    CASE c = "0" -> 0 [] c = "1" -> 1 [] c = "2" -> 2 [] c = "3" -> 3 [] c = "4" -> 4

\* int(s) raises ValueError unless every character is a decimal digit.
IntParses(s) == s # <<>> /\ \A i \in 1..Len(s) : s[i] \in AsciiDigits

RECURSIVE IntValue(_)
IntValue(s) ==
    IF s = <<>> THEN 0
    ELSE 10 * IntValue(SubSeq(s, 1, Len(s) - 1)) + DigitValue(s[Len(s)])

(* ------------------------------ the store ------------------------------ *)

\* The requests the concurrent server has in flight at most.
MaxRequests == 2

IsActive(t) == t.completed_at = None

ActiveIds(ts) == {i \in DOMAIN ts : IsActive(ts[i])}

CompletedIds(ts) == {i \in DOMAIN ts : ~IsActive(ts[i])}

SetMin(S) == CHOOSE m \in S : \A x \in S : m <= x

SetMax(S) == CHOOSE m \in S : \A x \in S : m >= x

\* Mutant of MinPosition: the minimum is taken over the active rows only.
MinPosition_ActiveOnly(ts) ==
    IF ActiveIds(ts) = {} THEN None
    ELSE Some(SetMin({ts[i].position : i \in ActiveIds(ts)}))

\* db.session.query(db.func.min(Task.position)).scalar(): None on an empty
\* table, the minimum over all rows (active and completed) otherwise.
MinPosition(ts) ==
    IF DOMAIN ts = {} THEN None ELSE Some(SetMin({ts[i].position : i \in DOMAIN ts}))

\* (min_pos - 1) if min_pos is not None else 0
TopPosition(ts) ==
    LET min_pos == MinPosition(ts) IN IF min_pos # None THEN Val(min_pos) - 1 ELSE 0

\* The key of a new row: id is INTEGER PRIMARY KEY, so the store assigns
\* one more than the largest key in the table, 1 on an empty table.
NextId(ts) == IF DOMAIN ts = {} THEN 1 ELSE SetMax(DOMAIN ts) + 1

(* ----------------------------- due_date text --------------------------- *)

DateDigits == <<"0", "1", "2", "3", "4", "5", "6", "7", "8", "9">>

IsDateDigit(c) == \E n \in 1..Len(DateDigits) : DateDigits[n] = c

DateDigitValue(c) == (CHOOSE n \in 1..Len(DateDigits) : DateDigits[n] = c) - 1

RECURSIVE DateNumber(_)
DateNumber(s) ==
    IF s = <<>> THEN 0
    ELSE 10 * DateNumber(SubSeq(s, 1, Len(s) - 1)) + DateDigitValue(s[Len(s)])

AllDateDigits(s) == \A i \in 1..Len(s) : IsDateDigit(s[i])

\* The three fields of a text with two "-", <<>> for any other text.
DateFields(s) ==
    LET dashes == {i \in 1..Len(s) : s[i] = "-"}
    IN IF Cardinality(dashes) # 2 THEN <<>>
       ELSE LET d1 == SetMin(dashes)
                d2 == SetMax(dashes)
            IN <<SubSeq(s, 1, d1 - 1), SubSeq(s, d1 + 1, d2 - 1),
                 SubSeq(s, d2 + 1, Len(s))>>

\* The day field without the blank that %d accepts before a single digit.
DayDigits(f) ==
    IF Len(f) = 2 /\ f[1] = " " /\ f[2] # "0" THEN <<f[2]>> ELSE f

\* The text matches '%Y-%m-%d': four digits, a month 1..12 and a day 1..31
\* of one or two digits each.
MatchesFormat(s) ==
    LET f == DateFields(s)
    IN /\ f # <<>>
       /\ Len(f[1]) = 4 /\ AllDateDigits(f[1])
       /\ Len(f[2]) \in 1..2 /\ AllDateDigits(f[2])
       /\ DateNumber(f[2]) \in 1..12
       /\ Len(DayDigits(f[3])) \in 1..2 /\ AllDateDigits(DayDigits(f[3]))
       /\ DateNumber(DayDigits(f[3])) \in 1..31

IsLeap(y) == y % 4 = 0 /\ (y % 100 # 0 \/ y % 400 = 0)

DaysInMonth(y, m) ==
    IF m = 2 THEN (IF IsLeap(y) THEN 29 ELSE 28)
    ELSE IF m \in {4, 6, 9, 11} THEN 30 ELSE 31

\* strptime(...) returns: the format matches and the fields name a day of
\* the calendar.
ParsesAsDate(s) ==
    /\ MatchesFormat(s)
    /\ LET f == DateFields(s)
       IN /\ DateNumber(f[1]) >= 1
          /\ DateNumber(DayDigits(f[3])) <=
                DaysInMonth(DateNumber(f[1]), DateNumber(f[2]))

\* date(y, m, d).toordinal(): the days from 0001-01-01, that day being 1.
ToOrdinal(y, m, d) ==
    LET before[k \in 0..12] ==
            IF k = 0 THEN 0 ELSE before[k - 1] + DaysInMonth(y, k)
    IN 365 * (y - 1) + ((y - 1) \div 4) - ((y - 1) \div 100)
          + ((y - 1) \div 400) + before[m - 1] + d

\* strptime(due_date, '%Y-%m-%d').date(), as an ordinal.
DueOrdinal(s) ==
    LET f == DateFields(s)
    IN ToOrdinal(DateNumber(f[1]), DateNumber(f[2]), DateNumber(DayDigits(f[3])))

\* The text a date input submits: YYYY-MM-DD.
DateText(y, m, d) ==
    LET digit(n) == DateDigits[n + 1]
    IN <<digit(y \div 1000), digit((y \div 100) % 10), digit((y \div 10) % 10),
         digit(y % 10), "-", digit(m \div 10), digit(m % 10), "-",
         digit(d \div 10), digit(d % 10)>>

\* The day before the first reading of the clock, where the clock is read
\* in days.
EpochDay == ToOrdinal(2024, 2, 26)

\* date.today()
Today(clock) == EpochDay + clock

\* Mutant of GetTimeDisplay: the overdue text shows the delta with its sign.
GetTimeDisplay_Signed(due_date, today) ==
    IF ~Truthy(due_date) THEN None
    ELSE IF ~ParsesAsDate(Val(due_date)) THEN None
    ELSE LET delta == DueOrdinal(Val(due_date)) - today
         IN IF delta = 0 THEN Some("Due today")
            ELSE IF delta = 1 THEN Some("1 day left")
            ELSE IF delta > 1 THEN Some(ToString(delta) \o " days left")
            ELSE IF delta = -1 THEN Some("1 day overdue")
            ELSE Some(ToString(delta) \o " days overdue")

\* Task.get_time_display of a task with that due_date, read on that day.
GetTimeDisplay(due_date, today) ==
    IF ~Truthy(due_date) THEN None
    ELSE IF ~ParsesAsDate(Val(due_date)) THEN None
    ELSE LET delta == DueOrdinal(Val(due_date)) - today
         IN IF delta = 0 THEN Some("Due today")
            ELSE IF delta = 1 THEN Some("1 day left")
            ELSE IF delta > 1 THEN Some(ToString(delta) \o " days left")
            ELSE IF delta = -1 THEN Some("1 day overdue")
            ELSE Some(ToString(IF delta < 0 THEN 0 - delta ELSE delta)
                         \o " days overdue")

(* ------------------------------- inputs -------------------------------- *)

\* /<op>/<int:id>: a non-negative integer, existing or not.
IdInputs == 0..MaxId

ContentInputs == {None, Some(<<"x">>)}

ColorInputs == {Some("default")}

LabelInputs == {None}

DueDateInputs == {None}

NoteInputs == {None, Some(<<"n">>)}

\* The requires_id field: missing, empty, every single character, and two
\* two-character texts (a leading zero, a digit followed by a digit that is
\* not decimal).
ReqIdInputs ==
    {None} \cup {Some(s) : s \in SeqsUpTo(ReqChars, 1)}
           \cup {Some(<<"0", "1">>), Some(<<"1", "sup2">>)}

\* The form without a field (a GET carries no form).
NoForm ==
    [content |-> None, color |-> None, label |-> None, due_date |-> None,
     requires_id |-> None, completion_note |-> None]

DirectionInputs == {"up", "down", "sideways"}

\* The id sequences of a bulk reorder.
MaxSeqLen == 3

SeqInputs == SeqsUpTo(IdInputs, MaxSeqLen)

\* The forms an edit posts: the empty form, and every form that carries a
\* content.
EditForms ==
    {NoForm} \cup
    [content : ContentInputs \ {None}, color : ColorInputs, label : LabelInputs,
     due_date : DueDateInputs, requires_id : ReqIdInputs,
     completion_note : NoteInputs]

\* The label texts of the requests that exercise the normalisation: missing,
\* empty, blank, padded, mixed case, two words.
TextLabelInputs ==
    {None, Some(<<>>), Some(<<" ">>), Some(<<" ", " ">>), Some(<<"u">>),
     Some(<<"u", "R">>), Some(<<" ", "R", " ", "u">>),
     Some(<<" ", "u", "r", "g", "e", "n", "t", " ">>)}

\* The content texts of those requests: missing, empty, present.
TextContentInputs == {None, Some(<<>>), Some(<<"x">>)}

\* The forms those requests post.
TextForms ==
    [content : TextContentInputs, color : ColorInputs, label : TextLabelInputs,
     due_date : DueDateInputs, requires_id : {None}, completion_note : {None}]

\* The days the clock of the due-date display runs through.
MaxDay == 4

\* The due_date texts: missing, empty, days around the readings of the
\* clock, across a leap day and a year's end, a year ahead, without the
\* zero padding, with a blank for it, and texts strptime rejects.
DueTextInputs ==
    {None, Some(<<>>), Some(<<"a">>)}
    \cup {Some(DateText(2024, 2, d)) : d \in 24..30}
    \cup {Some(DateText(2024, 3, d)) : d \in 1..3}
    \cup {Some(DateText(2023, 12, 31)), Some(DateText(2025, 3, 1)),
          Some(DateText(2023, 2, 29)), Some(DateText(2024, 13, 1)),
          Some(DateText(0, 1, 1)),
          Some(<<"2", "0", "2", "4", "-", "3", "-", "1">>),
          Some(<<"2", "0", "2", "4", "-", "0", "3", "-", " ", "1">>),
          Some(<<"2", "0", "2", "4", "-", "0", "3">>),
          Some(<<"2", "0", "2", "4", "0", "3", "0", "1">>),
          Some(<<"2", "4", "-", "0", "3", "-", "0", "1">>),
          Some(<<"2", "0", "2", "4", "-", "0", "3", "-", "0", "1", " ">>)}

\* The forms that set a due_date.
DueForms ==
    [content : {Some(<<"x">>)}, color : ColorInputs, label : {None},
     due_date : DueTextInputs, requires_id : {None}, completion_note : {None}]

(* ------------------------------- handlers ------------------------------ *)

Ids == DOMAIN tasks

Init ==
    /\ tasks = <<>>
    /\ now = 1
    /\ last = [op |-> "init", resp |-> "redirect", committed |-> FALSE,
               dependents |-> {}, listing |-> <<>>]
    /\ pending = {}

\* The outcome of a request: the table it leaves, its response (302 to the
\* index, the edit form, or a 500 after an uncaught exception, when the
\* session is discarded with the request), whether db.session.commit() ran,
\* and the dependents the cascade of a delete or a sweep unlinked.
Outcome(ts, resp, committed, dependents) ==
    [tasks |-> ts, resp |-> resp, committed |-> committed,
     dependents |-> dependents]

\* The tables the bounds admit.
WithinBounds(ts) ==
    /\ Cardinality(DOMAIN ts) <= MaxTasks
    /\ \A i \in DOMAIN ts : i <= MaxId /\ ts[i].position >= -MaxDepth

Apply(op, out) ==
    /\ WithinBounds(out.tasks)
    /\ tasks' = out.tasks
    /\ last' = [op |-> op, resp |-> out.resp, committed |-> out.committed,
                dependents |-> out.dependents, listing |-> <<>>]
    /\ pending' = pending

\* Mutant of AddTask: the new task always takes position 0.
AddTask_AtZero(ts, content, color, due_date, raw_label) ==
    LET new_task == [content |-> content, position |-> 0, color |-> color,
                     label |-> NormLabel(raw_label),
                     due_date |-> IF Truthy(due_date) THEN due_date ELSE None,
                     completion_note |-> None, requires_id |-> None,
                     completed_at |-> None]
        new_id == NextId(ts)
    IN IF Truthy(content)
       THEN Outcome([i \in DOMAIN ts \cup {new_id} |->
                        IF i = new_id THEN new_task ELSE ts[i]],
                    "redirect", TRUE, {})
       ELSE Outcome(ts, "redirect", FALSE, {})

AddTask(ts, content, color, due_date, raw_label) ==
    LET label == NormLabel(raw_label)
        new_pos == TopPosition(ts)
        new_task == [content |-> content, position |-> new_pos, color |-> color,
                     label |-> label,
                     due_date |-> IF Truthy(due_date) THEN due_date ELSE None,
                     completion_note |-> None, requires_id |-> None,
                     completed_at |-> None]
        new_id == NextId(ts)
    IN IF Truthy(content)
       THEN Outcome([i \in DOMAIN ts \cup {new_id} |->
                        IF i = new_id THEN new_task ELSE ts[i]],
                    "redirect", TRUE, {})
       ELSE Outcome(ts, "redirect", FALSE, {})

add_task(content, color, due_date, raw_label) ==
    /\ Apply("add", AddTask(tasks, content, color, due_date, raw_label))
    /\ now' = now

\* task.requires_id as the edit assigns it.
ValidatedRequiresId(ts, id, req_id) ==
    IF Truthy(req_id) /\ IsDigit(Val(req_id))
    THEN LET req_id_int == IntValue(Val(req_id))
         IN IF req_id_int # id /\ req_id_int \in DOMAIN ts
            THEN Some(req_id_int)
            ELSE None
    ELSE None

\* The exceptions an edit raises: int(req_id) on a digit that is not
\* decimal (ValueError), and the flush of a missing content into the NOT
\* NULL column (IntegrityError).
EditRaises(form) ==
    \/ /\ Truthy(form.requires_id)
       /\ IsDigit(Val(form.requires_id))
       /\ ~IntParses(Val(form.requires_id))
    \/ form.content = None

\* Mutant of EditTask: the completion note is stored whether or not the
\* task is completed.
EditTask_AlwaysNote(ts, id, method, form) ==
    IF id \notin DOMAIN ts THEN Outcome(ts, "redirect", FALSE, {})
    ELSE IF method # "POST" THEN Outcome(ts, "render", FALSE, {})
    ELSE IF EditRaises(form) THEN Outcome(ts, "error", FALSE, {})
    ELSE Outcome([ts EXCEPT ![id] =
                     [@ EXCEPT !.content = form.content,
                               !.color = form.color,
                               !.label = NormLabel(form.label),
                               !.due_date = IF Truthy(form.due_date)
                                            THEN form.due_date ELSE None,
                               !.requires_id =
                                   ValidatedRequiresId(ts, id, form.requires_id),
                               !.completion_note =
                                   IF Truthy(form.completion_note)
                                   THEN form.completion_note ELSE None]],
                 "redirect", TRUE, {})

EditTask(ts, id, method, form) ==
    IF id \notin DOMAIN ts THEN Outcome(ts, "redirect", FALSE, {})
    ELSE IF method # "POST" THEN Outcome(ts, "render", FALSE, {})
    ELSE IF EditRaises(form) THEN Outcome(ts, "error", FALSE, {})
    ELSE LET task == ts[id]
             completion_note ==
                 IF ~IsActive(task)
                 THEN (IF Truthy(form.completion_note)
                       THEN form.completion_note ELSE None)
                 ELSE task.completion_note
         IN Outcome([ts EXCEPT ![id] =
                        [@ EXCEPT !.content = form.content,
                                  !.color = form.color,
                                  !.label = NormLabel(form.label),
                                  !.due_date = IF Truthy(form.due_date)
                                               THEN form.due_date ELSE None,
                                  !.requires_id =
                                      ValidatedRequiresId(ts, id, form.requires_id),
                                  !.completion_note = completion_note]],
                    "redirect", TRUE, {})

edit_task(id, method, form) ==
    /\ Apply("edit", EditTask(tasks, id, method, form))
    /\ now' = now

\* Mutant of ToggleTask: a completion, too, moves the task to the top.
ToggleTask_TopOnComplete(ts, clock, id) ==
    IF id \in DOMAIN ts
    THEN IF ~IsActive(ts[id])
         THEN Outcome([ts EXCEPT ![id] =
                          [@ EXCEPT !.completed_at = None,
                                    !.completion_note = None,
                                    !.position = TopPosition(ts)]],
                      "redirect", TRUE, {})
         ELSE Outcome([ts EXCEPT ![id] =
                          [@ EXCEPT !.completed_at = Some(clock),
                                    !.position = TopPosition(ts)]],
                      "redirect", TRUE, {})
    ELSE Outcome(ts, "redirect", FALSE, {})

\* Mutant of ToggleTask: a reactivation keeps the completion note.
ToggleTask_KeepNote(ts, clock, id) ==
    IF id \in DOMAIN ts
    THEN IF ~IsActive(ts[id])
         THEN Outcome([ts EXCEPT ![id] =
                          [@ EXCEPT !.completed_at = None,
                                    !.position = TopPosition(ts)]],
                      "redirect", TRUE, {})
         ELSE Outcome([ts EXCEPT ![id].completed_at = Some(clock)],
                      "redirect", TRUE, {})
    ELSE Outcome(ts, "redirect", FALSE, {})

\* clock is the value datetime.datetime.now() returns.
ToggleTask(ts, clock, id) ==
    IF id \in DOMAIN ts
    THEN IF ~IsActive(ts[id])
         THEN Outcome([ts EXCEPT ![id] =
                          [@ EXCEPT !.completed_at = None,
                                    !.completion_note = None,
                                    !.position = TopPosition(ts)]],
                      "redirect", TRUE, {})
         ELSE Outcome([ts EXCEPT ![id].completed_at = Some(clock)],
                      "redirect", TRUE, {})
    ELSE Outcome(ts, "redirect", FALSE, {})

toggle_task(id) ==
    /\ Apply("toggle", ToggleTask(tasks, now, id))
    /\ IF id \in ActiveIds(tasks)
       THEN now <= MaxClock /\ now' = now + 1
       ELSE now' = now

\* Mutant of Neighbors: the order_by runs the other way, so first() returns
\* the active task farthest from current.
Neighbors_Farthest(ts, id, direction) ==
    LET current == ts[id]
        query == ActiveIds(ts)
    IN IF direction = "up"
       THEN LET below == {n \in query : ts[n].position < current.position}
            IN {n \in below : \A m \in below : ts[m].position >= ts[n].position}
       ELSE LET above == {n \in query : ts[n].position > current.position}
            IN {n \in above : \A m \in above : ts[m].position <= ts[n].position}

\* Mutant of Neighbors: the query is not filtered on completed_at.
Neighbors_AnyState(ts, id, direction) ==
    LET current == ts[id]
        query == DOMAIN ts
    IN IF direction = "up"
       THEN LET below == {n \in query : ts[n].position < current.position}
            IN {n \in below : \A m \in below : ts[m].position <= ts[n].position}
       ELSE LET above == {n \in query : ts[n].position > current.position}
            IN {n \in above : \A m \in above : ts[m].position >= ts[n].position}

\* The rows query.filter(...).order_by(...).first() may return: the active
\* tasks on that side of current whose position is nearest to it.
Neighbors(ts, id, direction) ==
    LET current == ts[id]
        query == ActiveIds(ts)
    IN IF direction = "up"
       THEN LET below == {n \in query : ts[n].position < current.position}
            IN {n \in below : \A m \in below : ts[m].position <= ts[n].position}
       ELSE LET above == {n \in query : ts[n].position > current.position}
            IN {n \in above : \A m \in above : ts[m].position >= ts[n].position}

\* Mutant of MoveTask: the task takes the neighbor's position and the
\* neighbor keeps it.
MoveTask_OneSided(ts, id, direction) ==
    IF id \notin DOMAIN ts \/ ~IsActive(ts[id])
    THEN {Outcome(ts, "redirect", FALSE, {})}
    ELSE IF Neighbors(ts, id, direction) = {}
    THEN {Outcome(ts, "redirect", FALSE, {})}
    ELSE {Outcome([ts EXCEPT ![id].position = ts[neighbor].position],
                  "redirect", TRUE, {}) :
             neighbor \in Neighbors(ts, id, direction)}

\* The outcomes of a move: one for each row first() may return.
MoveTask(ts, id, direction) ==
    IF id \notin DOMAIN ts \/ ~IsActive(ts[id])
    THEN {Outcome(ts, "redirect", FALSE, {})}
    ELSE IF Neighbors(ts, id, direction) = {}
    THEN {Outcome(ts, "redirect", FALSE, {})}
    ELSE {Outcome([ts EXCEPT ![id].position = ts[neighbor].position,
                             ![neighbor].position = ts[id].position],
                  "redirect", TRUE, {}) :
             neighbor \in Neighbors(ts, id, direction)}

move_task(id, direction) ==
    /\ \E out \in MoveTask(tasks, id, direction) : Apply("move", out)
    /\ now' = now

\* The table after the rows in removed are deleted and the rows in
\* dependents have requires_id cleared.
Unlinked(ts, dependents, removed) ==
    [i \in DOMAIN ts \ removed |->
        IF i \in dependents THEN [ts[i] EXCEPT !.requires_id = None] ELSE ts[i]]

\* Mutant of DeleteTask: the row is deleted without the cascade.
DeleteTask_NoCascade(ts, id) ==
    IF id \in DOMAIN ts
    THEN Outcome(Unlinked(ts, {}, {id}), "redirect", TRUE, {})
    ELSE Outcome(ts, "redirect", FALSE, {})

\* Mutant of DeleteTask: the cascade unlinks one dependent (first() for all()).
DeleteTask_FirstDependent(ts, id) ==
    IF id \in DOMAIN ts
    THEN LET all == {d \in DOMAIN ts : ts[d].requires_id = Some(id)}
             dependents == IF all = {} THEN {} ELSE {SetMin(all)}
         IN Outcome(Unlinked(ts, dependents, {id}), "redirect", TRUE, dependents)
    ELSE Outcome(ts, "redirect", FALSE, {})

\* Mutant of DeleteTask: the row is used without the test that it exists.
DeleteTask_Unchecked(ts, id) ==
    IF id \in DOMAIN ts
    THEN LET dependents == {d \in DOMAIN ts : ts[d].requires_id = Some(id)}
         IN Outcome(Unlinked(ts, dependents, {id}), "redirect", TRUE, dependents)
    ELSE Outcome(ts, "error", FALSE, {})

DeleteTask(ts, id) ==
    IF id \in DOMAIN ts
    THEN LET dependents == {d \in DOMAIN ts : ts[d].requires_id = Some(id)}
         IN Outcome(Unlinked(ts, dependents, {id}), "redirect", TRUE, dependents)
    ELSE Outcome(ts, "redirect", FALSE, {})

delete_task(id) ==
    /\ Apply("delete", DeleteTask(tasks, id))
    /\ now' = now

\* Mutant of SweepCompleted: the completed rows are deleted without the
\* cascade.
SweepCompleted_NoCascade(ts) ==
    LET ids_to_delete == CompletedIds(ts)
    IN IF ids_to_delete # {}
       THEN Outcome(Unlinked(ts, {}, ids_to_delete), "redirect", TRUE, {})
       ELSE Outcome(ts, "redirect", FALSE, {})

SweepCompleted(ts) ==
    LET ids_to_delete == CompletedIds(ts)
    IN IF ids_to_delete # {}
       THEN LET dependents == {d \in DOMAIN ts :
                                  /\ ts[d].requires_id # None
                                  /\ Val(ts[d].requires_id) \in ids_to_delete}
            IN Outcome(Unlinked(ts, dependents, ids_to_delete),
                       "redirect", TRUE, dependents)
       ELSE Outcome(ts, "redirect", FALSE, {})

sweep_completed ==
    /\ Apply("sweep", SweepCompleted(tasks))
    /\ now' = now

\* Bulk reorder: position = index for each id of the sequence, in order; an
\* id that resolves to no task is skipped.
RECURSIVE ReorderFrom(_, _, _)
ReorderFrom(ts, seq, k) ==
    IF k > Len(seq) THEN ts
    ELSE ReorderFrom(IF seq[k] \in DOMAIN ts
                     THEN [ts EXCEPT ![seq[k]].position = k - 1]
                     ELSE ts,
                     seq, k + 1)

\* Mutant of ReorderTasks: the index is added to the position a task has.
ReorderTasks_Shift(ts, seq) ==
    Outcome([i \in DOMAIN ts |->
                IF \E k \in 1..Len(seq) : seq[k] = i
                THEN [ts[i] EXCEPT !.position =
                         @ + SetMax({k \in 1..Len(seq) : seq[k] = i}) - 1]
                ELSE ts[i]],
            "redirect", TRUE, {})

ReorderTasks(ts, seq) == Outcome(ReorderFrom(ts, seq, 1), "redirect", TRUE, {})

reorder_tasks(seq) ==
    /\ Apply("reorder", ReorderTasks(tasks, seq))
    /\ now' = now

\* The rows of Query.all(), taken in primary-key order.
RECURSIVE QueryAll(_)
QueryAll(S) ==
    IF S = {} THEN <<>> ELSE <<SetMin(S)>> \o QueryAll(S \ {SetMin(S)})

\* sorted(seq, key=...): ascending by key, equal keys in their input order.
RECURSIVE Sorted(_, _)
Sorted(seq, key) ==
    IF seq = <<>> THEN <<>>
    ELSE LET head == Sorted(SubSeq(seq, 1, Len(seq) - 1), key)
             t == seq[Len(seq)]
             k == Cardinality({n \in 1..Len(head) : key[head[n]] <= key[t]})
         IN SubSeq(head, 1, k) \o <<t>> \o SubSeq(head, k + 1, Len(head))

\* sorted(seq, key=..., reverse=True): descending by key, equal keys in
\* their input order.
SortedReverse(seq, key) == Sorted(seq, [t \in DOMAIN key |-> 0 - key[t]])

\* The label filters of the listing: none, or a label no modelled task has.
FilterInputs == {None, Some(<<"U">>)}

\* Mutant of ListTasks: the finished tasks are listed oldest first.
ListTasks_OldestFirst(ts, filter_label) ==
    LET query == IF Truthy(filter_label)
                 THEN {t \in DOMAIN ts : ts[t].label = filter_label}
                 ELSE DOMAIN ts
        active_tasks ==
            Sorted(QueryAll({t \in query : ts[t].completed_at = None}),
                   [t \in query |-> ts[t].position])
        finished_tasks ==
            Sorted(QueryAll({t \in query : ts[t].completed_at # None}),
                   [t \in {c \in query : ts[c].completed_at # None} |->
                       Val(ts[t].completed_at)])
    IN active_tasks \o finished_tasks

\* The ids of the tasks index() hands to the template, in order.
ListTasks(ts, filter_label) ==
    LET query == IF Truthy(filter_label)
                 THEN {t \in DOMAIN ts : ts[t].label = filter_label}
                 ELSE DOMAIN ts
        active_tasks ==
            Sorted(QueryAll({t \in query : ts[t].completed_at = None}),
                   [t \in query |-> ts[t].position])
        finished_tasks ==
            SortedReverse(QueryAll({t \in query : ts[t].completed_at # None}),
                          [t \in {c \in query : ts[c].completed_at # None} |->
                              Val(ts[t].completed_at)])
    IN active_tasks \o finished_tasks

index(filter_label) ==
    /\ last' = [op |-> "index", resp |-> "render", committed |-> FALSE,
                dependents |-> {},
                listing |-> ListTasks(tasks, filter_label)]
    /\ UNCHANGED <<tasks, now, pending>>

Next ==
    \/ \E filter_label \in FilterInputs : index(filter_label)
    \/ \E content \in ContentInputs, color \in ColorInputs,
          due_date \in DueDateInputs, raw_label \in LabelInputs :
          add_task(content, color, due_date, raw_label)
    \/ \E id \in IdInputs : edit_task(id, "GET", NoForm)
    \/ \E id \in IdInputs, form \in EditForms : edit_task(id, "POST", form)
    \/ \E id \in IdInputs : toggle_task(id)
    \/ \E id \in IdInputs, direction \in DirectionInputs : move_task(id, direction)
    \/ \E id \in IdInputs : delete_task(id)
    \/ sweep_completed

Spec == Init /\ [][Next]_vars

\* The store under the handlers that write position or remove rows, and the
\* bulk reorder.
NextReorder ==
    \/ \E content \in ContentInputs, color \in ColorInputs,
          due_date \in DueDateInputs, raw_label \in LabelInputs :
          add_task(content, color, due_date, raw_label)
    \/ \E id \in IdInputs : toggle_task(id)
    \/ \E id \in IdInputs, direction \in DirectionInputs : move_task(id, direction)
    \/ \E id \in IdInputs : delete_task(id)
    \/ \E seq \in SeqInputs : reorder_tasks(seq)

SpecReorder == Init /\ [][NextReorder]_vars

\* The requests that write content and label, with the texts that exercise
\* their validation.
NextText ==
    \/ \E content \in TextContentInputs, color \in ColorInputs,
          due_date \in DueDateInputs, raw_label \in TextLabelInputs :
          add_task(content, color, due_date, raw_label)
    \/ \E id \in IdInputs : edit_task(id, "GET", NoForm)
    \/ \E id \in IdInputs, form \in TextForms : edit_task(id, "POST", form)

SpecText == Init /\ [][NextText]_vars

\* The template calls get_time_display on a task it renders.
get_time_display(id) ==
    /\ id \in Ids
    /\ last' = [op |-> "display", resp |-> "render", committed |-> FALSE,
                dependents |-> {},
                listing |-> <<GetTimeDisplay(tasks[id].due_date, Today(now))>>]
    /\ UNCHANGED <<tasks, now, pending>>

\* Midnight: date.today() moves on.
day_passes ==
    /\ now < MaxDay
    /\ now' = now + 1
    /\ last' = [op |-> "day", resp |-> "redirect", committed |-> FALSE,
                dependents |-> {}, listing |-> <<>>]
    /\ UNCHANGED <<tasks, pending>>

\* A store of one task with a due_date as add_task stores it.
InitDue ==
    /\ \E due_date \in DueTextInputs :
          tasks = AddTask(<<>>, Some(<<"x">>), Some("default"), due_date,
                          None).tasks
    /\ now = 1
    /\ last = [op |-> "init", resp |-> "redirect", committed |-> FALSE,
               dependents |-> {}, listing |-> <<>>]
    /\ pending = {}

NextDue ==
    \/ \E id \in IdInputs, form \in DueForms : edit_task(id, "POST", form)
    \/ \E id \in IdInputs : get_time_display(id)
    \/ day_passes

SpecDue == InitDue /\ [][NextDue]_vars

(* -------------------------- concurrent requests ------------------------ *)
(* The server runs each request in a thread of its own (app.run, threaded  *)
(* by default) with a session of its own.  delete_task and sweep_completed *)
(* read the rows to delete and their dependents with SELECTs, which run    *)
(* outside a transaction (the sqlite3 driver begins one only before the    *)
(* first INSERT, UPDATE or DELETE), change the objects of their session,   *)
(* and db.session.commit() writes the changes in one transaction: an       *)
(* UPDATE of the changed columns of each changed object and a DELETE for   *)
(* each deleted one.  Such a request in flight is the set of changes it    *)
(* computed from the table it read; other requests may commit between its  *)
(* reads and its commit.  The reads of one handler are taken together, and *)
(* the other handlers run as one step each.  A delete or a sweep that does *)
(* not reach commit() writes nothing and is left out here.                 *)

Columns ==
    {"content", "position", "color", "label", "due_date", "completion_note",
     "requires_id", "completed_at"}

\* The changes a session holds when the handler that read the table ts
\* reaches commit() with the outcome out: the changed columns of the rows
\* it changed, the rows it deleted.
UnitOfWork(op, ts, out) ==
    [op |-> op,
     updates |->
        [i \in {u \in DOMAIN ts \cap DOMAIN out.tasks : ts[u] # out.tasks[u]} |->
            [c \in {k \in Columns : ts[i][k] # out.tasks[i][k]} |->
                out.tasks[i][c]]],
     deletes |-> DOMAIN ts \ DOMAIN out.tasks,
     dependents |-> out.dependents]

\* UPDATE task SET <the changed columns> WHERE id = ...
Updated(row, update) ==
    LET value(c) == IF c \in DOMAIN update THEN update[c] ELSE row[c]
    IN [content |-> value("content"), position |-> value("position"),
        color |-> value("color"), label |-> value("label"),
        due_date |-> value("due_date"),
        completion_note |-> value("completion_note"),
        requires_id |-> value("requires_id"),
        completed_at |-> value("completed_at")]

\* An UPDATE of the flush matches no row: the flush raises StaleDataError.
Stale(ts, work) == \E i \in DOMAIN work.updates : i \notin DOMAIN ts

\* The table after the flush of the changes; a DELETE that matches no row
\* is no error.
Flushed(ts, work) ==
    [i \in DOMAIN ts \ work.deletes |->
        IF i \in DOMAIN work.updates
        THEN Updated(ts[i], work.updates[i])
        ELSE ts[i]]

\* A handler has read the table and reaches commit().
Begin(op, out) ==
    /\ Cardinality(pending) < MaxRequests
    /\ out.committed
    /\ pending' = pending \cup {UnitOfWork(op, tasks, out)}
    /\ UNCHANGED <<tasks, now, last>>

begin_delete_task(id) == Begin("delete", DeleteTask(tasks, id))

begin_sweep_completed == Begin("sweep", SweepCompleted(tasks))

\* db.session.commit() succeeds: the changes of the request become the
\* committed table in one transaction.
commit(work) ==
    /\ work \in pending
    /\ ~Stale(tasks, work)
    /\ tasks' = Flushed(tasks, work)
    /\ last' = [op |-> work.op, resp |-> "redirect", committed |-> TRUE,
                dependents |-> work.dependents, listing |-> <<>>]
    /\ pending' = pending \ {work}
    /\ now' = now

\* db.session.commit() raises (StaleDataError, database is locked, ...): the
\* transaction is rolled back and the request ends with a 500.
rollback(work) ==
    /\ work \in pending
    /\ last' = [op |-> work.op, resp |-> "error", committed |-> FALSE,
                dependents |-> {}, listing |-> <<>>]
    /\ pending' = pending \ {work}
    /\ UNCHANGED <<tasks, now>>

\* The forms of the edits that run next to a cascade: they set or clear
\* requires_id.
ConcurrentForms ==
    [content : {Some(<<"x">>)}, color : ColorInputs, label : {None},
     due_date : {None}, requires_id : {None, Some(<<"1">>), Some(<<"2">>)},
     completion_note : {None}]

NextConcurrent ==
    \/ \E filter_label \in {None} : index(filter_label)
    \/ \E content \in {Some(<<"x">>)}, color \in ColorInputs :
          add_task(content, color, None, None)
    \/ \E id \in IdInputs, form \in ConcurrentForms : edit_task(id, "POST", form)
    \/ \E id \in IdInputs : toggle_task(id)
    \/ \E id \in IdInputs : begin_delete_task(id)
    \/ begin_sweep_completed
    \/ \E work \in pending : commit(work)
    \/ \E work \in pending : rollback(work)

SpecConcurrent == Init /\ [][NextConcurrent]_vars

(* ------------------------------- claims -------------------------------- *)

\* C1: in every reachable state, a requires_id that is present differs from
\* the id of the task that holds it and is the id of a task in the store.
C1_RequiresValid ==
    \A i \in Ids :
        tasks[i].requires_id # None =>
            /\ Val(tasks[i].requires_id) # i
            /\ Val(tasks[i].requires_id) \in Ids

\* A delete or a sweep has unlinked a dependent and another reference is
\* still in the store.
C1_Witness ==
    /\ last.op \in {"delete", "sweep"}
    /\ last.dependents # {}
    /\ \E i \in Ids : tasks[i].requires_id # None

\* C2: from every reachable state, delete_task(X) on an existing X leaves
\* every task that required X without a requires_id, and X out of the store.
C2_DeleteUnlinks ==
    \A x \in Ids :
        LET after == DeleteTask(tasks, x).tasks
        IN /\ x \notin DOMAIN after
           /\ \A y \in Ids \ {x} :
                 tasks[y].requires_id = Some(x) =>
                     /\ y \in DOMAIN after
                     /\ after[y].requires_id = None

\* A delete has unlinked two dependents at once.
C2_Witness ==
    /\ last.op = "delete"
    /\ Cardinality(last.dependents) >= 2
    /\ last.dependents \subseteq Ids

\* C3: from every reachable state, sweep_completed() removes every completed
\* task and leaves no task whose requires_id names an id that is not in the
\* store.
C3_SweepClean ==
    LET after == SweepCompleted(tasks).tasks
    IN /\ DOMAIN after = ActiveIds(tasks)
       /\ CompletedIds(after) = {}
       /\ \A i \in DOMAIN after :
             after[i].requires_id # None =>
                 Val(after[i].requires_id) \in DOMAIN after

\* A sweep has unlinked a task that stays in the store, and another
\* remaining task still holds a reference.
C3_Witness ==
    /\ last.op = "sweep"
    /\ last.dependents \cap Ids # {}
    /\ \E i \in Ids : tasks[i].requires_id # None

\* The text names a task: a non-empty run of decimal digits.
C4_ParsesAsId(req_id) ==
    /\ req_id # None
    /\ Val(req_id) # <<>>
    /\ \A k \in 1..Len(Val(req_id)) : Val(req_id)[k] \in AsciiDigits

\* The number a run of one or two decimal digits writes.
C4_Number(s) ==
    IF Len(s) = 1 THEN DigitValue(s[1]) ELSE 10 * DigitValue(s[1]) + DigitValue(s[2])

\* C4: edit_task(id, ..., requires_id = r) on an existing task, with a
\* content submitted, stores requires_id = r when r parses as an identifier,
\* is not the task's own id and names an existing task, and stores no
\* requires_id in every other case; the rest of the edit is applied either
\* way, without an error.
C4_EditRequires ==
    \A id \in Ids, form \in EditForms :
        form.content # None =>
            LET out == EditTask(tasks, id, "POST", form)
                r == form.requires_id
            IN /\ out.tasks[id].requires_id =
                     (IF /\ C4_ParsesAsId(r)
                         /\ C4_Number(Val(r)) # id
                         /\ C4_Number(Val(r)) \in Ids
                      THEN Some(C4_Number(Val(r)))
                      ELSE None)
               /\ out.tasks[id].content = form.content
               /\ out.tasks[id].color = form.color
               /\ out.resp # "error"

\* C5: a create that adds a task gives it a position below the position of
\* every task already in the store, and position 0 in an empty store.
C5_InsertAtTop ==
    \A content \in ContentInputs, color \in ColorInputs,
       due_date \in DueDateInputs, raw_label \in LabelInputs :
        LET out == AddTask(tasks, content, color, due_date, raw_label)
        IN out.committed =>
              \E n \in DOMAIN out.tasks \ Ids :
                  /\ DOMAIN out.tasks = Ids \cup {n}
                  /\ \A i \in Ids : out.tasks[n].position < tasks[i].position
                  /\ Ids = {} => out.tasks[n].position = 0

\* A task was created in a store that held two active tasks and a completed
\* one (a created task is active).
C5_Witness ==
    /\ last.op = "add"
    /\ last.committed
    /\ CompletedIds(tasks) # {}
    /\ Cardinality(ActiveIds(tasks)) >= 2

\* C6: the toggle of a completed task, whatever happened to it while it was
\* completed and whether or not it carries a note, leaves it active, without
\* a completion note, at a position no greater than that of any task that
\* was active before the toggle.
C6_Reactivate ==
    \A id \in CompletedIds(tasks) :
        LET after == ToggleTask(tasks, now, id).tasks
        IN /\ IsActive(after[id])
           /\ after[id].completion_note = None
           /\ \A a \in ActiveIds(tasks) :
                 after[id].position <= tasks[a].position

\* A toggle has committed and no task is completed, so it reactivated one
\* (a toggle removes no task); the task at the top is below position 0 and
\* another task is active.
C6_Witness ==
    /\ last.op = "toggle"
    /\ last.committed
    /\ CompletedIds(tasks) = {}
    /\ \E i \in Ids :
          /\ Ids # {i}
          /\ tasks[i].position < 0
          /\ \A a \in Ids \ {i} : tasks[i].position < tasks[a].position

\* The number of active tasks listed before task i.
C7_Rank(ts, i) ==
    Cardinality({a \in ActiveIds(ts) : ts[a].position < ts[i].position})

\* The active task next to t in the direction: the greatest position below
\* t's for up, the least position above it for down.
C7_Next(ts, t, direction) ==
    IF direction = "up"
    THEN {n \in ActiveIds(ts) :
             /\ ts[n].position < ts[t].position
             /\ \A m \in ActiveIds(ts) :
                   ts[m].position < ts[t].position => ts[m].position <= ts[n].position}
    ELSE {n \in ActiveIds(ts) :
             /\ ts[n].position > ts[t].position
             /\ \A m \in ActiveIds(ts) :
                   ts[m].position > ts[t].position => ts[m].position >= ts[n].position}

\* C7: move_task(T, up) on an active T with an active task below it
\* exchanges the positions of T and of the nearest active task below (for
\* down: above), so that the two trade places in the display order; no
\* other field and no other task changes.
C7_MoveSwaps ==
    \A t \in ActiveIds(tasks), direction \in {"up", "down"} :
        C7_Next(tasks, t, direction) # {} =>
            \A out \in MoveTask(tasks, t, direction) :
                \E n \in C7_Next(tasks, t, direction) :
                    /\ out.tasks = [tasks EXCEPT ![t].position = tasks[n].position,
                                                 ![n].position = tasks[t].position]
                    /\ C7_Rank(out.tasks, t) = C7_Rank(tasks, n)
                    /\ C7_Rank(out.tasks, n) = C7_Rank(tasks, t)
                    /\ \A o \in Ids \ {t, n} : out.tasks[o] = tasks[o]

\* A move has swapped two of three active tasks.
C7_Witness ==
    /\ last.op = "move"
    /\ last.committed
    /\ Cardinality(ActiveIds(tasks)) >= 3

\* C8: move_task(T, direction) changes nothing when T is completed or when
\* no active task lies in that direction, whatever the positions of the
\* completed tasks.
C8_MoveNoop ==
    \A t \in Ids, direction \in {"up", "down"} :
        (~IsActive(tasks[t]) \/ C7_Next(tasks, t, direction) = {}) =>
            \A out \in MoveTask(tasks, t, direction) : out.tasks = tasks

\* A move that committed nothing, in a store whose first active task has a
\* completed task below it and whose last active task has one above it.
C8_Witness ==
    /\ last.op = "move"
    /\ ~last.committed
    /\ \E t \in ActiveIds(tasks) :
          /\ C7_Next(tasks, t, "up") = {}
          /\ \E c \in CompletedIds(tasks) : tasks[c].position < tasks[t].position
    /\ \E t \in ActiveIds(tasks) :
          /\ C7_Next(tasks, t, "down") = {}
          /\ \E c \in CompletedIds(tasks) : tasks[c].position > tasks[t].position

\* The request left the store as it was and was answered without an error.
C9_Noop(out) == out.tasks = tasks /\ out.resp # "error"

C10_ReorderIdempotent ==
    \A seq \in SeqInputs :
        LET once == ReorderTasks(tasks, seq).tasks
        IN /\ ReorderTasks(once, seq).tasks = once
           /\ DOMAIN once = Ids
           /\ \A i \in Ids :
                 /\ (\A k \in 1..Len(seq) : seq[k] # i) =>
                        once[i].position = tasks[i].position
                 /\ \A k \in 1..Len(seq) :
                        (seq[k] = i /\ \A j \in 1..Len(seq) : seq[j] = i => j = k) =>
                            once[i].position = k - 1

\* A reorder has acted on a store of three tasks, one of them completed,
\* and left two tasks at the same position.
C10_Witness ==
    /\ last.op = "reorder"
    /\ Cardinality(Ids) >= 3
    /\ CompletedIds(tasks) # {}
    /\ \E i, j \in Ids : i # j /\ tasks[i].position = tasks[j].position
    /\ \E i \in Ids : tasks[i].position < 0

\* C11: an edit of an active task leaves its completion_note as it was,
\* whatever note the form carries; only the edit of a completed task writes
\* the note.
C11_NoteOnlyWhenCompleted ==
    \A id \in Ids, form \in EditForms :
        LET after == EditTask(tasks, id, "POST", form).tasks
        IN /\ IsActive(tasks[id]) =>
                 after[id].completion_note = tasks[id].completion_note
           /\ after[id].completion_note # tasks[id].completion_note =>
                 ~IsActive(tasks[id])

\* An edit has committed in a store without a completed task, so it edited
\* an active task, and a task carries a requires_id an edit stored.
C11_Witness ==
    /\ last.op = "edit"
    /\ last.committed
    /\ CompletedIds(tasks) = {}
    /\ \E i \in Ids : tasks[i].requires_id # None

\* C12: toggle_task on an active task sets completed_at and nothing else:
\* every other field of the task, and every other task, is as before.
C12_CompleteFrame ==
    \A id \in ActiveIds(tasks) :
        LET after == ToggleTask(tasks, now, id).tasks
        IN /\ DOMAIN after = Ids
           /\ after[id].completed_at # None
           /\ after[id].position = tasks[id].position
           /\ after[id].completion_note = tasks[id].completion_note
           /\ [after[id] EXCEPT !.completed_at = None] = tasks[id]
           /\ \A o \in Ids \ {id} : after[o] = tasks[o]

\* The last toggle completed a task (it holds the newest timestamp and the
\* lowest position, which a reactivated task would hold instead), next to
\* an active task and a completed task that carries a note.
C12_Witness ==
    /\ last.op = "toggle"
    /\ last.committed
    /\ \E c \in Ids :
          /\ tasks[c].completed_at = Some(now - 1)
          /\ \A o \in Ids : tasks[c].position <= tasks[o].position
    /\ ActiveIds(tasks) # {}
    /\ \E n \in CompletedIds(tasks) : tasks[n].completion_note # None

\* C18: under add, edit, toggle, move, delete and sweep, no two tasks of the
\* store, active or completed, hold the same position.
C18_DistinctPositions ==
    \A i \in Ids, j \in Ids :
        tasks[i].position = tasks[j].position => i = j

\* A toggle has committed in a full store whose completed task lies between
\* two active ones, the deepest position the bound admits taken.
C18_Witness ==
    /\ last.op = "toggle"
    /\ last.committed
    /\ Cardinality(Ids) = MaxTasks
    /\ \E a \in ActiveIds(tasks), c \in CompletedIds(tasks), b \in ActiveIds(tasks) :
          /\ tasks[a].position < tasks[c].position
          /\ tasks[c].position < tasks[b].position
          /\ tasks[a].position = 0 - MaxDepth

\* C19: every active task has no completion note.
C19_ActiveHasNoNote ==
    \A i \in ActiveIds(tasks) : tasks[i].completion_note = None

\* The last toggle was a reactivation (a completion would have left a task
\* holding the newest timestamp), in a run in which completion notes are
\* written: a completed task still carries one.
C19_Witness ==
    /\ last.op = "toggle"
    /\ last.committed
    /\ \A i \in Ids : tasks[i].completed_at # Some(now - 1)
    /\ ActiveIds(tasks) # {}
    /\ \E n \in CompletedIds(tasks) : tasks[n].completion_note # None

\* C20: for an active task with an active neighbor on one side, the move to
\* that side followed by the move back restores the table exactly.
C20_MoveRoundTrip ==
    \A id \in ActiveIds(tasks) :
        /\ \A there \in MoveTask(tasks, id, "up") :
              there.committed =>
                 \A back \in MoveTask(there.tasks, id, "down") :
                    back.committed /\ back.tasks = tasks
        /\ \A there \in MoveTask(tasks, id, "down") :
              there.committed =>
                 \A back \in MoveTask(there.tasks, id, "up") :
                    back.committed /\ back.tasks = tasks

\* A move has committed in a store of three active tasks, so a task in the
\* middle has a neighbor on either side.
C20_Witness ==
    /\ last.op = "move"
    /\ last.committed
    /\ Cardinality(ActiveIds(tasks)) = MaxTasks

\* C16: the listing holds each task the filter admits once, every active
\* task before every completed one, the active ones by ascending position
\* and the completed ones by descending completed_at; a task just created
\* or just reactivated is the first one of the unfiltered listing.
C16_ListOrder ==
    /\ \A f \in FilterInputs :
          LET l == ListTasks(tasks, f)
          IN /\ {l[n] : n \in 1..Len(l)} =
                   {t \in Ids : Truthy(f) => tasks[t].label = f}
             /\ \A m \in 1..Len(l), n \in 1..Len(l) :
                   m < n =>
                      /\ l[m] # l[n]
                      /\ IsActive(tasks[l[m]]) \/ ~IsActive(tasks[l[n]])
                      /\ IsActive(tasks[l[m]]) /\ IsActive(tasks[l[n]]) =>
                            tasks[l[m]].position <= tasks[l[n]].position
                      /\ ~IsActive(tasks[l[m]]) /\ ~IsActive(tasks[l[n]]) =>
                            Val(tasks[l[m]].completed_at) >=
                               Val(tasks[l[n]].completed_at)
    /\ \A content \in ContentInputs, color \in ColorInputs,
          due_date \in DueDateInputs, raw_label \in LabelInputs :
          LET out == AddTask(tasks, content, color, due_date, raw_label)
          IN out.committed =>
                ListTasks(out.tasks, None)[1] = NextId(tasks)
    /\ \A id \in CompletedIds(tasks) :
          ListTasks(ToggleTask(tasks, now, id).tasks, None)[1] = id

\* index() has listed a full store: an active task, then two completed
\* tasks of which the one with the higher id, completed last, comes first,
\* so that the listing differs from the order of the query.
C16_Witness ==
    /\ last.op = "index"
    /\ Len(last.listing) = MaxTasks
    /\ IsActive(tasks[last.listing[1]])
    /\ ~IsActive(tasks[last.listing[2]])
    /\ ~IsActive(tasks[last.listing[3]])
    /\ last.listing[2] > last.listing[3]

\* C13: whatever label text add and edit requests submit, every stored
\* label is absent or a non-empty title-cased text without surrounding
\* whitespace, and " urgent " is stored as "Urgent".
C13_LabelNormalized ==
    /\ \A i \in Ids :
          \/ tasks[i].label = None
          \/ /\ Val(tasks[i].label) # <<>>
             /\ Title(Val(tasks[i].label)) = Val(tasks[i].label)
             /\ Strip(Val(tasks[i].label)) = Val(tasks[i].label)
    /\ NormLabel(Some(<<" ", "u", "r", "g", "e", "n", "t", " ">>)) =
          Some(<<"U", "r", "g", "e", "n", "t">>)

\* C14: whatever content add and edit requests submit, every task of the
\* store has a non-empty content.
C14_ContentNonEmpty ==
    \A i \in Ids : Truthy(tasks[i].content)

\* C17: the display of a due_date that names a day is fixed by the delta
\* d = due - today: "Due today" for 0, "1 day left" for 1, "d days left"
\* above 1, "1 day overdue" for -1, "|d| days overdue" below -1; a missing
\* due_date or one that names no day has no display.
C17_DueDisplay ==
    /\ \A i \in Ids :
          LET due == tasks[i].due_date
              display == GetTimeDisplay(due, Today(now))
          IN IF due = None \/ ~ParsesAsDate(Val(due))
             THEN display = None
             ELSE LET d == DueOrdinal(Val(due)) - Today(now)
                  IN /\ d = 0 => display = Some("Due today")
                     /\ d = 1 => display = Some("1 day left")
                     /\ d > 1 => display = Some(ToString(d) \o " days left")
                     /\ d = -1 => display = Some("1 day overdue")
                     /\ d < -1 =>
                           display = Some(ToString(0 - d) \o " days overdue")
    /\ \A due \in DueTextInputs, other \in DueTextInputs, clock \in 1..MaxDay :
          /\ Truthy(due) /\ ParsesAsDate(Val(due))
          /\ Truthy(other) /\ ParsesAsDate(Val(other))
          /\ DueOrdinal(Val(due)) - Today(now) =
                DueOrdinal(Val(other)) - Today(clock)
          => GetTimeDisplay(due, Today(now)) = GetTimeDisplay(other, Today(clock))

\* On the first of March the display of a task due on the leap day before
\* the last has been rendered.
C17_Witness ==
    /\ last.op = "display"
    /\ Today(now) = ToOrdinal(2024, 3, 1)
    /\ \E i \in Ids : tasks[i].due_date = Some(DateText(2024, 2, 28))
    /\ last.listing = <<Some("2 days overdue")>>

\* C15: under any interleaving of requests the cascade of a delete or a
\* sweep is atomic: the tasks a committed cascade unlinked carry no
\* requires_id when it has removed its rows, and no reader of the committed
\* table sees a requires_id that names a task the table does not hold.
C15_CascadeAtomic ==
    /\ last.op \in {"delete", "sweep"} /\ last.committed =>
          \A d \in last.dependents \cap Ids : tasks[d].requires_id = None
    /\ last.op = "index" =>
          \A i \in Ids :
             tasks[i].requires_id # None => Val(tasks[i].requires_id) \in Ids

====
